---- MODULE Spec2Model ----
(***************************************************************************)
(* A model of pyramid_registration/mongodb.py: the MongoDB registration    *)
(* backend (add_user, activate, verify_access_token, issue_access_token)   *)
(* and the module-level helpers it is built from.                          *)
(*                                                                         *)
(* The users collection is a function from _id to document.  Every pymongo *)
(* call (find_one, update with $pull / $push / $set) is one atomic step;   *)
(* the callers are concurrent processes that interleave between the calls. *)
(* Time is counted in days.                                                *)
(***************************************************************************)
EXTENDS Integers, Sequences, FiniteSets, TLC

\* ------------------------------------------------------------- bounds
\* The clock stops at MaxTime; the generated usernames are user0..user<MaxTempNum>
\* (the code draws from 0..99999999).
MaxTime == 45
MaxTempNum == 1

\* The callers, the _ids of the documents of the collection, an _id that no
\* document has, the range of _generate_access_token, the steps of the clock,
\* the usernames and linked-account tokens of the documents the collection
\* starts with.
Procs == {"p1", "p2"}
ExistingIds == {1, 2}
ObjectIds == ExistingIds \cup {3}
TokenSpace == {"T1", "T2"}
TickSteps == {15}
InitUsernames == {"alice", "user0"}
ActivationTokens == {"A1", "A2"}

\* datetime.timedelta(days=30)
RetentionDays == 30

VARIABLES
    users,      \* db.users: _id -> document
    now,        \* datetime.datetime.utcnow(), in days
    pc,         \* per caller: where it stands in its call
    op,         \* per caller: the operation it is in
    uid,        \* per caller: the user_id argument (issue_access_token)
    cand,       \* per caller: token / username (argument or loop candidate)
    found,      \* per caller: what the find_one that ended the loop returned
    udoc,       \* per caller: user_doc of verify_access_token ({} is None)
    struct,     \* per caller: the argument of add_user
    outcome,    \* per caller: "none" (running), "return" or "raise"
    value,      \* per caller: the value returned or the exception raised
    seen,       \* history, per caller: the issuances on record when it called
    purgeRun,     \* history, per caller: the purge its verify_access_token ran
    issued,     \* history: the tokens issue_access_token has returned
    issuedTo    \* history, per token: its latest issuance to an existing user

vars == <<users, now, pc, op, uid, cand, found, udoc, struct, outcome, value,
          seen, purgeRun, issued, issuedTo>>

\* ------------------------------------------------------------ helpers
Min(S) == CHOOSE x \in S : \A y \in S : x <= y

Range(s) == {s[k] : k \in DOMAIN s}

RECURSIVE Without(_, _)
\* the subsequence of s of the elements not in the set drop
Without(s, drop) ==
    IF s = <<>> THEN <<>>
    ELSE IF Head(s) \in drop THEN Without(Tail(s), drop)
    ELSE <<Head(s)>> \o Without(Tail(s), drop)

\* the issuance records of rs that are less than a retention window old
InWindow(rs, utcnow) == {r \in rs : utcnow - r.time < RetentionDays}

\* str(user_doc["_id"])
IdStr(i) == ToString(i)

\* ------------------------------------------------------ the collection
\* the same with unique left out of the username index
UniqueIndexesNoUsername == {"access_tokens.token", "linked_accounts.id"}

\* The unique indexes create_indexes builds on users (linked_accounts.type is
\* indexed without unique).
UniqueIndexes == {"access_tokens.token", "username", "linked_accounts.id"}

\* The values a document has at a dotted path.  An embedded document
\* contributes the value of the named field when it has that field.
KeysAt(doc, path) ==
    CASE path = "username" -> {doc.username}
      [] path = "access_tokens.token" ->
            {doc.access_tokens[k].token : k \in DOMAIN doc.access_tokens}
      [] path = "linked_accounts.id" ->
            {doc.linked_accounts[k]["id"] :
                k \in {j \in DOMAIN doc.linked_accounts :
                          "id" \in DOMAIN doc.linked_accounts[j]}}
      [] path = "linked_accounts.token" ->
            {doc.linked_accounts[k]["token"] :
                k \in {j \in DOMAIN doc.linked_accounts :
                          "token" \in DOMAIN doc.linked_accounts[j]}}

\* A unique index rejects a write after which two different documents hold
\* the same value at its path.  It does not look inside one document: MongoDB
\* enforces a unique multikey index across documents only, so one array may
\* hold the same value twice.  (The key MongoDB stores for a document with no
\* value at the path is not modelled.)
IndexAdmits(db) ==
    \A path \in UniqueIndexes : \A i, j \in DOMAIN db :
        i # j => KeysAt(db[i], path) \cap KeysAt(db[j], path) = {}

\* find_one with a filter that leaves the token out
_lookup_any_token(db, access_token) ==
    LET m == {i \in DOMAIN db : db[i].access_tokens # <<>>}
    IN  IF m = {} THEN {} ELSE {Min(m)}

\* db.users.find_one({"access_tokens.token": access_token}): the first
\* matching document, as a set ({} is None).
_lookup_access_token(db, access_token) ==
    LET m == {i \in DOMAIN db : access_token \in KeysAt(db[i], "access_tokens.token")}
    IN  IF m = {} THEN {} ELSE {Min(m)}

\* db.users.find_one({"username": username})
lookup_username(db, username) ==
    LET m == {i \in DOMAIN db : username \in KeysAt(db[i], "username")}
    IN  IF m = {} THEN {} ELSE {Min(m)}

\* "user%d" % random.randint(0, 99999999), for the number n drawn
_generate_temp_username(n) == "user" \o ToString(n)

\* the $pull with no timestamp predicate
ExpiredAlways(entry, expiry) == TRUE

\* the predicate with $gte for $lte
ExpiredKeepsOld(entry, expiry) == entry.timestamp >= expiry

\* The $pull predicate {"timestamp": {"$lte": expiry}}
Expired(entry, expiry) == entry.timestamp <= expiry

\* the purge with expiry = utcnow() + timedelta
_purge_wrong_window(db, user_id, utcnow) ==
    LET expiry == utcnow + RetentionDays
    IN  IF user_id \notin DOMAIN db THEN db
        ELSE [db EXCEPT ![user_id].access_tokens =
                Without(@, {e \in Range(@) : Expired(e, expiry)})]

\* the $pull with an empty filter on every document (multi=True)
_purge_every_user(db, user_id, utcnow) ==
    LET expiry == utcnow - RetentionDays
    IN  [i \in DOMAIN db |->
            [db[i] EXCEPT !.access_tokens =
                Without(@, {e \in Range(@) : Expired(e, expiry)})]]

\* _purge_old_tokens: $pull of the expired entries of the document user_id;
\* an update that matches no document changes nothing.
_purge_old_tokens(db, user_id, utcnow) ==
    LET expiry == utcnow - RetentionDays
    IN  IF user_id \notin DOMAIN db THEN db
        ELSE [db EXCEPT ![user_id].access_tokens =
                Without(@, {e \in Range(@) : Expired(e, expiry)})]

\* The $push of _store_access_token, before the index has its say.
PushToken(db, user_id, token, utcnow) ==
    IF user_id \notin DOMAIN db THEN db
    ELSE [db EXCEPT ![user_id].access_tokens =
            Append(@, [token |-> token, timestamp |-> utcnow])]

\* verify_access_token run with no other call in between: lookup, purge of
\* the owner, lookup again; the value it returns.
verify_access_token(db, token, utcnow) ==
    LET user_doc == _lookup_access_token(db, token)
    IN  IF user_doc = {} THEN "None"
        ELSE LET purged == _purge_old_tokens(db, Min(user_doc), utcnow)
                 again == _lookup_access_token(purged, token)
             IN  IF again # {} THEN IdStr(Min(again)) ELSE "None"

\* the loop with an unconditional break, and with "not" left out
LoopExitAlways(hit) == TRUE

LoopExitInverted(hit) == hit # {}

\* "if not <find_one>: break"
LoopExit(hit) == hit = {}

\* the update with an empty filter: the first document of the collection
SetActivatedAnyUser(db, token, utcnow) ==
    [db EXCEPT ![Min(DOMAIN db)].activated_timestamp = {utcnow}]

\* The $set of activate on the first document that has a linked account with
\* this token; an update that matches no document changes nothing.
SetActivated(db, token, utcnow) ==
    LET m == {i \in DOMAIN db : token \in KeysAt(db[i], "linked_accounts.token")}
    IN  IF m = {} THEN db
        ELSE [db EXCEPT ![Min(m)].activated_timestamp = {utcnow}]

\* ----------------------------------------------------------- add_user
\* What AddUserSchema.deserialize gives for a valid struct: every field, ""
\* for a missing one (None in the code; both are false).
AddUserInputs ==
    {[username |-> u, facebook_id |-> f, facebook_first_name |-> n] :
        u \in {"", "alice", "carol"}, f \in {"", "F1"}, n \in {""}}
    \cup {[username |-> "carol", facebook_id |-> "F1", facebook_first_name |-> "Flo"]}

NoStruct == [username |-> "", facebook_id |-> "", facebook_first_name |-> ""]

\* make_temp_username() at line 138 is called with no argument, and
\* make_temp_username(db) takes one: the call raises TypeError.
MakeTempUsernameNoArgument == "TypeError"

\* new_user["linked_accounts":[linked_account]] at line 154 is a subscript
\* with a slice, not an assignment: a dict raises TypeError (unhashable).
SliceSubscript == "TypeError"

\* self.db.insert(...) at line 156: self.db is the Database, so .insert is
\* the collection named "insert", and calling a Collection raises TypeError.
DatabaseInsert == "TypeError"

\* The linked_account dict add_user builds for a struct with a facebook_id:
\* account_type and account_id, and the name fields that were supplied.
linked_account(d) ==
    IF d.facebook_first_name # ""
    THEN [account_type |-> "fb", account_id |-> d.facebook_id,
          first_name |-> d.facebook_first_name]
    ELSE [account_type |-> "fb", account_id |-> d.facebook_id]

\* The exception add_user ends with; no path through it reaches a write.
add_user(d) ==
    IF d.username = "" THEN MakeTempUsernameNoArgument
    ELSE IF d.facebook_id # "" THEN SliceSubscript
    ELSE DatabaseInsert

\* ----------------------------------------------------------- initial
\* The collection holds two documents when the backend is constructed: the
\* first has a linked account with an activation token, the second has none.
InitLinked(i) ==
    IF i = 1
    THEN <<[account_type |-> "fb", account_id |-> "F1", token |-> "A1"]>>
    ELSE <<>>

InitStores ==
    {db \in [ExistingIds -> [username : InitUsernames, access_tokens : {<<>>},
                             linked_accounts : {<<>>, InitLinked(1)},
                             activated_timestamp : {{}}]] :
        \A i \in ExistingIds : db[i].linked_accounts = InitLinked(i)}

Init ==
    /\ users \in {db \in InitStores : IndexAdmits(db) /\ db[1].username = "alice"}
    /\ now = 0
    /\ pc = [p \in Procs |-> "idle"]
    /\ op = [p \in Procs |-> "none"]
    /\ uid = [p \in Procs |-> 0]
    /\ cand = [p \in Procs |-> ""]
    /\ found = [p \in Procs |-> {}]
    /\ udoc = [p \in Procs |-> {}]
    /\ struct = [p \in Procs |-> NoStruct]
    /\ outcome = [p \in Procs |-> "none"]
    /\ value = [p \in Procs |-> ""]
    /\ seen = [p \in Procs |-> {}]
    /\ purgeRun = [p \in Procs |-> {}]
    /\ issued = {}
    /\ issuedTo = [t \in TokenSpace |-> {}]

\* ------------------------------------------------------------ actions
Finish(p, how, v) ==
    /\ pc' = [pc EXCEPT ![p] = "done"]
    /\ outcome' = [outcome EXCEPT ![p] = how]
    /\ value' = [value EXCEPT ![p] = v]

\* issue_access_token(user_id) is called
IssueCall(p, user_id) ==
    /\ pc[p] = "idle"
    /\ pc' = [pc EXCEPT ![p] = "i_gen"]
    /\ op' = [op EXCEPT ![p] = "issue_access_token"]
    /\ uid' = [uid EXCEPT ![p] = user_id]
    /\ seen' = [seen EXCEPT ![p] =
           UNION {{r \in issuedTo[t] : r.user = user_id} : t \in TokenSpace}]
    /\ UNCHANGED <<users, now, cand, found, udoc, struct, outcome, value,
                   issued, issuedTo, purgeRun>>

\* the loop with a cap of one round: a taken candidate ends the call
IssueLoopCapped(p, token) ==
    /\ pc[p] = "i_gen"
    /\ LET hit == _lookup_access_token(users, token)
       IN  IF LoopExit(hit)
           THEN /\ cand' = [cand EXCEPT ![p] = token]
                /\ found' = [found EXCEPT ![p] = hit]
                /\ pc' = [pc EXCEPT ![p] = "i_purge"]
                /\ UNCHANGED <<outcome, value>>
           ELSE /\ Finish(p, "raise", "ResourceExhausted")
                /\ UNCHANGED <<cand, found>>
    /\ UNCHANGED <<users, now, op, uid, udoc, struct, seen, issued, issuedTo,
                   purgeRun>>

\* one round of "while True": generate a token, look it up, break if absent
\* (a candidate that does not end the loop is overwritten by the next round)
IssueLoop(p, token) ==
    /\ pc[p] = "i_gen"
    /\ LET hit == _lookup_access_token(users, token)
       IN  IF LoopExit(hit)
           THEN /\ cand' = [cand EXCEPT ![p] = token]
                /\ found' = [found EXCEPT ![p] = hit]
                /\ pc' = [pc EXCEPT ![p] = "i_purge"]
           ELSE UNCHANGED <<cand, found, pc>>
    /\ UNCHANGED <<users, now, op, uid, udoc, struct, outcome, value, seen,
                   issued, issuedTo, purgeRun>>

\* _store_access_token, first update: _purge_old_tokens(db, user_id)
IssuePurge(p) ==
    /\ pc[p] = "i_purge"
    /\ users' = _purge_old_tokens(users, uid[p], now)
    /\ pc' = [pc EXCEPT ![p] = "i_push"]
    /\ UNCHANGED <<now, op, uid, cand, found, udoc, struct, outcome, value,
                   seen, issued, issuedTo, purgeRun>>

\* the $push with the conflict caught and the loop entered again
IssuePushRetry(p) ==
    /\ pc[p] = "i_push"
    /\ LET pushed == PushToken(users, uid[p], cand[p], now)
       IN  IF IndexAdmits(pushed)
           THEN /\ users' = pushed
                /\ Finish(p, "return", cand[p])
                /\ issued' = issued \cup {cand[p]}
                /\ issuedTo' =
                       IF uid[p] \in DOMAIN users
                       THEN [issuedTo EXCEPT ![cand[p]] =
                               {[token |-> cand[p], user |-> uid[p], time |-> now]}]
                       ELSE issuedTo
           ELSE /\ pc' = [pc EXCEPT ![p] = "i_gen"]
                /\ UNCHANGED <<users, issued, issuedTo, outcome, value>>
    /\ UNCHANGED <<now, op, uid, cand, found, udoc, struct, seen, purgeRun>>

\* _store_access_token, second update: the $push (safe=True), and the return
\* of the token.  A write the unique index rejects raises DuplicateKeyError
\* out of issue_access_token, which catches nothing.
IssuePush(p) ==
    /\ pc[p] = "i_push"
    /\ LET pushed == PushToken(users, uid[p], cand[p], now)
       IN  IF IndexAdmits(pushed)
           THEN /\ users' = pushed
                /\ Finish(p, "return", cand[p])
                /\ issued' = issued \cup {cand[p]}
                /\ issuedTo' =
                       IF uid[p] \in DOMAIN users
                       THEN [issuedTo EXCEPT ![cand[p]] =
                               {[token |-> cand[p], user |-> uid[p], time |-> now]}]
                       ELSE issuedTo
           ELSE /\ Finish(p, "raise", "DuplicateKeyError")
                /\ UNCHANGED <<users, issued, issuedTo>>
    /\ UNCHANGED <<now, op, uid, cand, found, udoc, struct, seen, purgeRun>>

\* the call without "if not user_doc: return None": user_doc["_id"] of None
VerifyCallNoEarlyReturn(p, token) ==
    /\ pc[p] = "idle"
    /\ op' = [op EXCEPT ![p] = "verify_access_token"]
    /\ cand' = [cand EXCEPT ![p] = token]
    /\ seen' = [seen EXCEPT ![p] = issuedTo[token]]
    /\ LET user_doc == _lookup_access_token(users, token)
       IN  /\ udoc' = [udoc EXCEPT ![p] = user_doc]
           /\ IF user_doc = {}
              THEN Finish(p, "raise", "TypeError")
              ELSE /\ pc' = [pc EXCEPT ![p] = "v_purge"]
                   /\ UNCHANGED <<outcome, value>>
    /\ UNCHANGED <<users, now, uid, found, struct, issued, issuedTo, purgeRun>>

\* verify_access_token(token) is called: the first lookup
VerifyCall(p, token) ==
    /\ pc[p] = "idle"
    /\ op' = [op EXCEPT ![p] = "verify_access_token"]
    /\ cand' = [cand EXCEPT ![p] = token]
    /\ seen' = [seen EXCEPT ![p] = issuedTo[token]]
    /\ LET user_doc == _lookup_access_token(users, token)
       IN  /\ udoc' = [udoc EXCEPT ![p] = user_doc]
           /\ IF user_doc = {}
              THEN Finish(p, "return", "None")
              ELSE /\ pc' = [pc EXCEPT ![p] = "v_purge"]
                   /\ UNCHANGED <<outcome, value>>
    /\ UNCHANGED <<users, now, uid, found, struct, issued, issuedTo, purgeRun>>

\* _purge_old_tokens(self.db, user_doc["_id"])
VerifyPurge(p) ==
    /\ pc[p] = "v_purge"
    /\ users' = _purge_old_tokens(users, Min(udoc[p]), now)
    /\ purgeRun' = [purgeRun EXCEPT ![p] =
           LET held == {e \in Range(users[Min(udoc[p])].access_tokens) :
                           e.token = cand[p]}
           IN  {[at |-> now,
                 expired |-> /\ held # {}
                             /\ \A e \in held : Expired(e, now - RetentionDays)]}]
    /\ pc' = [pc EXCEPT ![p] = "v_lookup"]
    /\ UNCHANGED <<now, op, uid, cand, found, udoc, struct, outcome, value,
                   seen, issued, issuedTo>>

\* the return without a second lookup: the document of the first one
VerifyLookupSkipped(p) ==
    /\ pc[p] = "v_lookup"
    /\ Finish(p, "return", IdStr(Min(udoc[p])))
    /\ UNCHANGED <<users, now, op, uid, cand, found, udoc, struct, seen, issued,
                   issuedTo, purgeRun>>

\* the second lookup and the return
VerifyLookup(p) ==
    /\ pc[p] = "v_lookup"
    /\ LET user_doc == _lookup_access_token(users, cand[p])
       IN  /\ udoc' = [udoc EXCEPT ![p] = user_doc]
           /\ IF user_doc # {}
              THEN Finish(p, "return", IdStr(Min(user_doc)))
              ELSE Finish(p, "return", "None")
    /\ UNCHANGED <<users, now, op, uid, cand, found, struct, seen, issued, issuedTo,
                   purgeRun>>

\* make_temp_username(db) is called
MakeTempCall(p) ==
    /\ pc[p] = "idle"
    /\ pc' = [pc EXCEPT ![p] = "m_gen"]
    /\ op' = [op EXCEPT ![p] = "make_temp_username"]
    /\ UNCHANGED <<users, now, uid, cand, found, udoc, struct, outcome, value,
                   seen, issued, issuedTo, purgeRun>>

\* one round of its "while True", and the return once the loop breaks
MakeTempLoop(p, n) ==
    /\ pc[p] = "m_gen"
    /\ LET username == _generate_temp_username(n)
           hit == lookup_username(users, username)
       IN  IF LoopExit(hit)
           THEN /\ cand' = [cand EXCEPT ![p] = username]
                /\ found' = [found EXCEPT ![p] = hit]
                /\ Finish(p, "return", username)
           ELSE UNCHANGED <<cand, found, pc, outcome, value>>
    /\ UNCHANGED <<users, now, op, uid, udoc, struct, seen, issued, issuedTo, purgeRun>>

\* add_user(struct), for a struct the schema accepts
AddUser(p, d) ==
    /\ pc[p] = "idle"
    /\ op' = [op EXCEPT ![p] = "add_user"]
    /\ struct' = [struct EXCEPT ![p] = d]
    /\ Finish(p, "raise", add_user(d))
    /\ UNCHANGED <<users, now, uid, cand, found, udoc, seen, issued, issuedTo,
                   purgeRun>>

\* activate(token): one update
Activate(p, token) ==
    /\ pc[p] = "idle"
    /\ op' = [op EXCEPT ![p] = "activate"]
    /\ cand' = [cand EXCEPT ![p] = token]
    /\ users' = SetActivated(users, token, now)
    /\ Finish(p, "return", "None")
    /\ UNCHANGED <<now, uid, found, udoc, struct, seen, issued, issuedTo, purgeRun>>

\* the caller takes the result; its frame is gone
Return(p) ==
    /\ pc[p] = "done"
    /\ pc' = [pc EXCEPT ![p] = "idle"]
    /\ op' = [op EXCEPT ![p] = "none"]
    /\ uid' = [uid EXCEPT ![p] = 0]
    /\ cand' = [cand EXCEPT ![p] = ""]
    /\ found' = [found EXCEPT ![p] = {}]
    /\ udoc' = [udoc EXCEPT ![p] = {}]
    /\ struct' = [struct EXCEPT ![p] = NoStruct]
    /\ outcome' = [outcome EXCEPT ![p] = "none"]
    /\ value' = [value EXCEPT ![p] = ""]
    /\ seen' = [seen EXCEPT ![p] = {}]
    /\ purgeRun' = [purgeRun EXCEPT ![p] = {}]
    /\ UNCHANGED <<users, now, issued, issuedTo>>

\* the clock advances (the history forgets the issuances that are a
\* retention window old: nothing is stated about them)
Tick(d) ==
    /\ now + d <= MaxTime
    /\ now' = now + d
    /\ issuedTo' = [t \in TokenSpace |-> InWindow(issuedTo[t], now + d)]
    /\ seen' = [p \in Procs |-> InWindow(seen[p], now + d)]
    /\ UNCHANGED <<users, pc, op, uid, cand, found, udoc, struct, outcome,
                   value, issued, purgeRun>>

\* the user document with this username and these linked accounts, as a
\* new registration would insert it
NewUser(username, linked) ==
    [username |-> username, access_tokens |-> <<>>,
     linked_accounts |-> linked, activated_timestamp |-> {}]

\* The token operations and the registration operations touch disjoint
\* fields of the documents (access_tokens; username, linked_accounts,
\* activated_timestamp), so each group is checked in a specification of its
\* own; make_temp_username, the second generate-check-retry loop, is in both.

\* Spec: concurrent issue_access_token, verify_access_token and
\* make_temp_username calls
Next ==
    \/ \E p \in Procs, u \in ObjectIds : IssueCall(p, u)
    \/ \E p \in Procs, t \in TokenSpace : IssueLoop(p, t)
    \/ \E p \in Procs : IssuePurge(p)
    \/ \E p \in Procs : IssuePush(p)
    \/ \E p \in Procs, t \in TokenSpace : VerifyCall(p, t)
    \/ \E p \in Procs : VerifyPurge(p)
    \/ \E p \in Procs : VerifyLookup(p)
    \/ \E p \in Procs : MakeTempCall(p)
    \/ \E p \in Procs, n \in 0..MaxTempNum : MakeTempLoop(p, n)
    \/ \E p \in Procs : Return(p)
    \/ \E d \in TickSteps : Tick(d)

Spec == Init /\ [][Next]_vars

\* SpecReg: concurrent add_user, activate and make_temp_username calls
NextReg ==
    \/ \E p \in Procs, d \in AddUserInputs : AddUser(p, d)
    \/ \E p \in Procs, t \in ActivationTokens : Activate(p, t)
    \/ \E p \in Procs : MakeTempCall(p)
    \/ \E p \in Procs, n \in 0..MaxTempNum : MakeTempLoop(p, n)
    \/ \E p \in Procs : Return(p)
    \/ \E d \in TickSteps : Tick(d)

SpecReg == Init /\ [][NextReg]_vars

TypeOK ==
    /\ DOMAIN users = ExistingIds
    /\ now \in 0..MaxTime
    /\ \A p \in Procs : outcome[p] \in {"none", "return", "raise"}
\* ------------------------------------------------------------- claims
\* the AccessToken entries of the collection that hold token t
EntriesOf(t) ==
    UNION {{<<i, k>> : k \in {j \in DOMAIN users[i].access_tokens :
                                users[i].access_tokens[j].token = t}} :
           i \in DOMAIN users}

Issuing(p) == op[p] = "issue_access_token"
Verifying(p) == op[p] = "verify_access_token"
Returned(p) == pc[p] = "done" /\ outcome[p] = "return"
Raised(p) == pc[p] = "done" /\ outcome[p] = "raise"

\* C1: in every reachable state, whatever the interleaving of concurrent
\* issue_access_token calls, no token string is held by more than one
\* AccessToken entry of the collection.
C1_NoStoredDuplicate ==
    \A t \in TokenSpace : Cardinality(EntriesOf(t)) <= 1

\* C2: a verify_access_token(t) called after issue_access_token(u) returned t
\* for an existing user u, with no retention window elapsed since, returns
\* the id of u.
C2_IssuedTokenVerifies ==
    \A p \in Procs : (Verifying(p) /\ pc[p] = "done") =>
        \A r \in seen[p] : outcome[p] = "return" /\ value[p] = IdStr(r.user)

\* C2's case: a verify of a token issued 15 days before has returned
C2_Witness ==
    \E p \in Procs : Verifying(p) /\ Returned(p) /\
        \E r \in seen[p] : r.time < now /\ value[p] = IdStr(r.user)

\* C3: the purge that an issue_access_token or verify_access_token call runs
\* on a user leaves no AccessToken in that user's array whose timestamp is
\* older than the retention window.
C3_PurgeRemovesOld ==
    [][\A p \in Procs :
        (pc[p] \in {"i_purge", "v_purge"} /\ pc'[p] # pc[p]) =>
            LET u == IF pc[p] = "i_purge" THEN uid[p] ELSE Min(udoc[p])
            IN  u \in DOMAIN users' =>
                    \A e \in Range(users'[u].access_tokens) :
                        ~(e.timestamp < now - RetentionDays)]_vars

\* C3's case: a verify found its token, purged the owner, and the token is gone
C3_Witness ==
    \E p \in Procs : pc[p] = "v_lookup" /\ _lookup_access_token(users, cand[p]) = {}

\* C4 as stated: issue_access_token never fails on a uniqueness violation
\* raised by the append (it starts over and returns a stored token).
C4_NeverFails ==
    \A p \in Procs : Issuing(p) => ~Raised(p)

\* C4 as amended: when the append of the new token violates the unique index,
\* issue_access_token does not start over: the call ends there with the
\* error raised to its caller, and the collection is unchanged by the append.
C4_ConflictPropagates ==
    [][\A p \in Procs :
        (/\ pc[p] = "i_push" /\ pc'[p] # pc[p]
         /\ ~IndexAdmits(PushToken(users, uid[p], cand[p], now))) =>
            /\ pc'[p] = "done"
            /\ outcome'[p] = "raise"
            /\ value'[p] = "DuplicateKeyError"
            /\ users' = users]_vars

\* C4's case: an issue_access_token call has ended with the index's error
C4_Witness ==
    \E p \in Procs : Issuing(p) /\ Raised(p) /\ value[p] = "DuplicateKeyError"

\* C5: when issue_access_token returns for an existing user for whom an
\* earlier call had already returned a token less than a retention window
\* ago, the two token strings differ, both are in the user's array, and both
\* verify to that user's id.
C5_TwoDistinctValidTokens ==
    \A p \in Procs :
        (Issuing(p) /\ Returned(p) /\ uid[p] \in DOMAIN users) =>
            \A r \in seen[p] :
                /\ r.token # value[p]
                /\ {r.token, value[p]} \subseteq
                       KeysAt(users[uid[p]], "access_tokens.token")
                /\ verify_access_token(users, r.token, now) = IdStr(uid[p])
                /\ verify_access_token(users, value[p], now) = IdStr(uid[p])

\* C5's case: a second issuance for the same user has returned
C5_Witness ==
    \E p \in Procs : Issuing(p) /\ Returned(p) /\ uid[p] \in DOMAIN users
                     /\ seen[p] # {}

\* C6: verify_access_token called with a token string that no
\* issue_access_token call has returned gives None.
C6_NeverIssuedNotFound ==
    \A p \in Procs :
        (Verifying(p) /\ pc[p] = "done" /\ cand[p] \notin issued) =>
            outcome[p] = "return" /\ value[p] = "None"

\* C6's case: a verify of a never-issued token has returned while another
\* token is stored
C6_Witness ==
    \E p \in Procs : Verifying(p) /\ Returned(p) /\ cand[p] \notin issued
                     /\ \E t \in TokenSpace : _lookup_access_token(users, t) # {}

\* C7: the candidate with which a generate-check-retry loop ends (the token
\* loop of issue_access_token, make_temp_username) is one whose lookup found
\* no match, and it is the value the call returns.
C7_LoopEndsOnAbsentCandidate ==
    \A p \in Procs :
        (\/ Issuing(p) /\ pc[p] \in {"i_purge", "i_push", "done"}
         \/ op[p] = "make_temp_username" /\ pc[p] = "done") =>
            /\ found[p] = {}
            /\ Returned(p) => value[p] = cand[p]

\* C7's case: both loops have ended while a token and a generated username
\* were taken
C7_Witness ==
    \E p, q \in Procs :
        /\ op[p] = "make_temp_username" /\ Returned(p)
        /\ \E n \in 0..MaxTempNum :
               lookup_username(users, _generate_temp_username(n)) # {}
        /\ Issuing(q) /\ pc[q] = "i_purge"
        /\ \E t \in TokenSpace : _lookup_access_token(users, t) # {}

\* C8: add_user with no username persists a new User whose username is a
\* generated temporary username.
C8_TempUsernameAssigned ==
    \A p \in Procs :
        (op[p] = "add_user" /\ pc[p] = "done" /\ struct[p].username = "") =>
            /\ outcome[p] = "return"
            /\ \E i \in DOMAIN users, n \in 0..MaxTempNum :
                   i \notin ExistingIds /\ users[i].username = _generate_temp_username(n)

C10_DuplicateIsUniquenessError ==
    \A p \in Procs :
        (/\ op[p] = "add_user" /\ pc[p] = "done"
         /\ \/ lookup_username(users, struct[p].username) # {}
            \/ \E i \in DOMAIN users : \E k \in DOMAIN users[i].linked_accounts :
                   users[i].linked_accounts[k].account_id = struct[p].facebook_id) =>
            /\ Raised(p) /\ value[p] = "DuplicateKeyError"
            /\ DOMAIN users = ExistingIds

AddingUser(p) == op[p] = "add_user"
Activating(p) == op[p] = "activate"

\* the (account_type, account_id) pairs of the linked accounts of a document
PairsOf(doc) ==
    {<<doc.linked_accounts[k].account_type, doc.linked_accounts[k].account_id>> :
        k \in DOMAIN doc.linked_accounts}

\* C11: when an add_user call given a linked-identity id has ended, it has
\* returned, and the collection holds a new User whose linked_accounts is
\* exactly the one LinkedAccount with account_type "fb", the given account_id
\* and the supplied name fields.
C11_LinkedUserPersisted ==
    \A p \in Procs :
        (AddingUser(p) /\ pc[p] = "done" /\ struct[p].facebook_id # "") =>
            /\ outcome[p] = "return"
            /\ \E i \in DOMAIN users \ ExistingIds :
                   users[i].linked_accounts = <<linked_account(struct[p])>>

Unmatched(token) ==
    \A i \in DOMAIN users : token \notin KeysAt(users[i], "linked_accounts.token")

\* C13: an activate(token) call whose token matches no linked account of any
\* User leaves every User document as it was and returns without an error.
C13_UnmatchedActivateNoChange ==
    [][\A p \in Procs :
          (pc[p] = "idle" /\ Activating(p)' /\ Unmatched(cand'[p])) =>
              /\ users' = users
              /\ Returned(p)']_vars

\* C13's case: an activate call with a token no linked account has returned
C13_Witness ==
    \E p \in Procs : Activating(p) /\ Returned(p) /\ Unmatched(cand[p])

InTokenLoop(p) == pc[p] = "i_gen"
InUsernameLoop(p) == pc[p] = "m_gen"

\* every token the generator can draw is stored
AllTokensTaken == \A t \in TokenSpace : EntriesOf(t) # {}

\* C14, as stated: a call inside a generate-check-retry loop always has a
\* step that leaves the loop, by a passing candidate or by a failure, also
\* when every candidate it can generate is in the store.
C14_LoopCanEnd ==
    \A p \in Procs :
        /\ InTokenLoop(p) =>
              ENABLED (\E t \in TokenSpace : IssueLoop(p, t) /\ ~InTokenLoop(p)')
        /\ InUsernameLoop(p) =>
              ENABLED (\E n \in 0..MaxTempNum :
                          MakeTempLoop(p, n) /\ ~InUsernameLoop(p)')

\* C14, amended: the loops have no cap and no failure.  A call leaves its
\* loop only in a round whose candidate is not in the store, and never
\* raised; while every token is taken, an issue_access_token call in its
\* loop stays there.
C14_LoopEndsOnlyOnAbsent ==
    [][\A p \in Procs :
          /\ (InTokenLoop(p) /\ ~InTokenLoop(p)') =>
                /\ ~Raised(p)'
                /\ EntriesOf(cand'[p]) = {}
          /\ (InUsernameLoop(p) /\ ~InUsernameLoop(p)') =>
                /\ ~Raised(p)'
                /\ lookup_username(users, cand'[p]) = {}
          /\ (InTokenLoop(p) /\ AllTokensTaken) => InTokenLoop(p)']_vars

\* C14's case: a call is in the token loop while every token is taken
C14_Witness ==
    \E p \in Procs : InTokenLoop(p) /\ AllTokensTaken

\* the verify call of p has purged, and the entries that held its token in
\* the owner's array were all a retention window old at that purge
PurgedExpired(p) == \E r \in purgeRun[p] : r.expired

\* C15, as stated: a verify_access_token call that purged while its token
\* was a retention window old returns None.
C15_ExpiredNeverVerified ==
    \A p \in Procs :
        (Verifying(p) /\ pc[p] = "done" /\ PurgedExpired(p)) =>
            value[p] = "None"

\* C15, amended: the second lookup returns a user id only of a User that
\* holds the token at that lookup; and when the token was a retention
\* window old at the call's purge, a user id is returned only for entries
\* appended at or after that purge.
C15_VerifiedAtSecondLookup ==
    [][\A p \in Procs :
          (pc[p] = "v_lookup" /\ pc'[p] = "done") =>
              /\ Returned(p)'
              /\ value'[p] # "None" =>
                    \E i \in DOMAIN users :
                        /\ value'[p] = IdStr(i)
                        /\ cand[p] \in KeysAt(users[i], "access_tokens.token")
              /\ (PurgedExpired(p) /\ value'[p] # "None") =>
                    \A r \in purgeRun[p] : \A e \in EntriesOf(cand[p]) :
                        users[e[1]].access_tokens[e[2]].timestamp >= r.at]_vars

\* C15's case: the first lookup found the token, the purge removed it as
\* expired, and the call returned None
C15_Witness ==
    \E p \in Procs :
        Verifying(p) /\ Returned(p) /\ PurgedExpired(p) /\ value[p] = "None"

\* the other case: the token was appended again between purge and lookup
C15_ReissuedWitness ==
    \E p \in Procs :
        Verifying(p) /\ Returned(p) /\ PurgedExpired(p) /\ value[p] # "None"

\* the AccessToken entry an issuance on record appended
EntryOf(r) == [token |-> r.token, timestamp |-> r.time]

\* C16: a step removes an AccessToken entry only if its timestamp is at or
\* before now minus the retention window; and a token issued to a User less
\* than a retention window ago is in that User's array and verifies to that
\* User, whatever issue and verify calls have run or are running.
C16_FreshTokenKept ==
    /\ [][\A i \in DOMAIN users : \A e \in Range(users[i].access_tokens) :
            e \notin Range(users'[i].access_tokens) =>
                e.timestamp <= now - RetentionDays]_vars
    /\ [](\A t \in TokenSpace : \A r \in issuedTo[t] :
            /\ EntryOf(r) \in Range(users[r.user].access_tokens)
            /\ verify_access_token(users, t, now) = IdStr(r.user))

\* C16's case: a verify call has purged the owner of a token issued before,
\* less than a retention window ago, and the entry is still there
C16_Witness ==
    \E p \in Procs : \E t \in TokenSpace : \E r \in issuedTo[t] :
        /\ pc[p] = "v_lookup" /\ udoc[p] = {r.user}
        /\ \E q \in purgeRun[p] : q.at > r.time
        /\ EntryOf(r) \in Range(users[r.user].access_tokens)

\* the User a call of p writes to: user_id of issue_access_token, the
\* document the first lookup of verify_access_token found
Target(p) == IF Issuing(p) THEN {uid[p]} ELSE udoc[p]

\* C17: a step of an issue_access_token or verify_access_token call changes
\* at most the access_tokens array of its one User: no User is added or
\* removed, every other User's document and every other field of that
\* User's document stay as they were.
C17_OnlyOneArrayChanges ==
    [][\A p \in Procs :
          (pc'[p] # pc[p] /\ (Issuing(p) \/ Verifying(p)
                               \/ Issuing(p)' \/ Verifying(p)')) =>
              /\ DOMAIN users' = DOMAIN users
              /\ \A i \in DOMAIN users :
                    IF i \in Target(p)
                    THEN users'[i] = [users[i] EXCEPT
                                        !.access_tokens = users'[i].access_tokens]
                    ELSE users'[i] = users[i]]_vars

\* C17's case: a verify call has purged its token from the owner's array
\* while another User holds tokens
C17_Witness ==
    \E p \in Procs :
        /\ pc[p] = "v_lookup" /\ PurgedExpired(p)
        /\ \E i \in DOMAIN users \ udoc[p] : users[i].access_tokens # <<>>

\* the collection with one more document
WithUser(db, doc) ==
    LET j == CHOOSE n \in ObjectIds : n \notin DOMAIN db
    IN  [n \in DOMAIN db \cup {j} |-> IF n = j THEN doc ELSE db[n]]

\* some activate call sets activated_timestamp on a document of db that has
\* this username
CanActivate(db, username) ==
    \E token \in ActivationTokens \cup {"F1"} : \E i \in DOMAIN db :
        /\ db[i].username = username
        /\ SetActivated(db, token, now)[i].activated_timestamp # {}

\* C18: a User created by add_user can reach the activated state through
\* some activate call: when an add_user call has ended, the collection
\* holds its User and an activate call can set its activated_timestamp; and
\* so can one for the document add_user builds for a struct with a new
\* username and a linked identity, once it is in the collection.
C18_AddedUserCanActivate ==
    /\ \A p \in Procs : (AddingUser(p) /\ pc[p] = "done") =>
          \E i \in DOMAIN users \ ExistingIds : CanActivate(users, users[i].username)
    /\ \A d \in AddUserInputs : (d.username = "carol" /\ d.facebook_id # "") =>
          CanActivate(WithUser(users, NewUser(d.username, <<linked_account(d)>>)),
                      d.username)

\* The first half of C18, which holds: an activate call whose token matches
\* a linked account sets activated_timestamp of that User to the current
\* time and changes nothing else.
C18_ActivateSetsOnlyTimestamp ==
    [][\A p \in Procs :
          (pc[p] = "idle" /\ Activating(p)' /\ ~Unmatched(cand'[p])) =>
              \E i \in DOMAIN users :
                  /\ cand'[p] \in KeysAt(users[i], "linked_accounts.token")
                  /\ users' = [users EXCEPT ![i].activated_timestamp = {now}]]_vars

\* C19: the step in which issue_access_token(user_id) returns a token leaves
\* that token in the access_tokens array of the User with that id; so a call
\* for a user_id that matches no User returns no token.
C19_ReturnedTokenStored ==
    [][\A p \in Procs :
          (pc[p] = "i_push" /\ Returned(p)') =>
              /\ uid[p] \in DOMAIN users'
              /\ value'[p] \in KeysAt(users'[uid[p]], "access_tokens.token")]_vars

\* C20: a step of a verify_access_token call adds no AccessToken entry and
\* neither adds nor removes a User; and a call whose first lookup finds no
\* document with the token ends there, with None, no purge run and the
\* collection unchanged.
C20_VerifyAddsNothing ==
    [][\A p \in Procs :
          (pc'[p] # pc[p] /\ (Verifying(p) \/ Verifying(p)')) =>
              /\ DOMAIN users' = DOMAIN users
              /\ \A i \in DOMAIN users :
                    /\ Range(users'[i].access_tokens) \subseteq
                           Range(users[i].access_tokens)
                    /\ Len(users'[i].access_tokens) <= Len(users[i].access_tokens)
              /\ (pc[p] = "idle" /\ EntriesOf(cand'[p]) = {}) =>
                    /\ users' = users
                    /\ Returned(p)' /\ value'[p] = "None"
                    /\ purgeRun'[p] = {}]_vars

\* C20's case: a verify of a token that was issued and is stored no more
\* has returned from its first lookup, while other tokens are stored
C20_Witness ==
    \E p \in Procs :
        /\ Verifying(p) /\ Returned(p) /\ purgeRun[p] = {}
        /\ cand[p] \in issued /\ EntriesOf(cand[p]) = {}
        /\ \E i \in DOMAIN users : users[i].access_tokens # <<>>
====
